---- MODULE Spec2Model ----
(***************************************************************************)
(* ExpenseBuddy backend (src/backend/server.py): the expense ledger, the   *)
(* budget registry and the read-time aggregation, as a state machine over  *)
(* the MongoDB collections and the requests in flight.                     *)
(*                                                                         *)
(* Every `await` of a handler is one atomic step of the request running    *)
(* it; several requests interleave at those points.  Amounts and limits    *)
(* are integers (minor units); strings that the code compares or orders    *)
(* (the stored ISO dates, the month window bounds, the date filters) are   *)
(* sequences of character codes compared as MongoDB compares strings.      *)
(***************************************************************************)
EXTENDS Integers, Sequences, FiniteSets, TLC

VARIABLES
    clock,      \* datetime.now(timezone.utc): <<year, month>> of the wall clock
    users,      \* db.users: the ids of the registered users
    categories, \* db.categories: documents [id, name]
    expenses,   \* db.expenses: documents (see Expense)
    budgets,    \* db.budgets: documents (see Budget)
    creator,    \* history: the user whose request inserted each expense/budget id
    nextId,     \* uuid.uuid4(): the next identifier never handed out before
    req         \* the request each worker is handling: handler, position, locals, response

vars == <<clock, users, categories, expenses, budgets, creator, nextId, req>>

(***************************************************************************)
(* Bounds of the model.                                                    *)
(***************************************************************************)
MaxProcs == 2           \* requests in flight at once
MaxBudgets == 2         \* budgets ever inserted (budget registry under concurrency)
MaxLedgerExpenses == 1  \* expenses ever inserted (expense ledger under concurrency)

Procs == 1..MaxProcs

(***************************************************************************)
(* Strings as sequences of character codes.                                *)
(***************************************************************************)
ChPlus == 43
ChDash == 45
ChDot == 46
ChZero == 48
ChColon == 58
ChT == 84
ChZ == 90

\* Python's and MongoDB's (simple binary collation) string order: the first
\* differing character decides, a proper prefix is smaller.
RECURSIVE StrLess(_, _)
StrLess(a, b) ==
    IF b = <<>> THEN FALSE
    ELSE IF a = <<>> THEN TRUE
    ELSE IF Head(a) # Head(b) THEN Head(a) < Head(b)
    ELSE StrLess(Tail(a), Tail(b))

StrLeq(a, b) == a = b \/ StrLess(a, b)

D2(n) == <<ChZero + (n \div 10), ChZero + (n % 10)>>
D3(n) == <<ChZero + (n \div 100)>> \o D2(n % 100)
D4(n) == D2(n \div 100) \o D2(n % 100)
D6(n) == D3(n \div 1000) \o D3(n % 1000)

\* strftime("%Y-%m") of a <<year, month>>
MonthKey(ym) == D4(ym[1]) \o <<ChDash>> \o D2(ym[2])

\* (mutation) isoformat(timespec='seconds'): the fraction is dropped
isoformat_seconds(dt) ==
    D4(dt.y) \o <<ChDash>> \o D2(dt.mo) \o <<ChDash>> \o D2(dt.d) \o <<ChT>>
    \o D2(dt.h) \o <<ChColon>> \o D2(dt.mi) \o <<ChColon>> \o D2(dt.s)
    \o (IF dt.tz = "utc" THEN <<ChPlus>> \o D2(0) \o <<ChColon>> \o D2(0) ELSE <<>>)

\* datetime.isoformat(): the fraction only when microsecond # 0, the offset
\* only for an aware value.
isoformat(dt) ==
    D4(dt.y) \o <<ChDash>> \o D2(dt.mo) \o <<ChDash>> \o D2(dt.d) \o <<ChT>>
    \o D2(dt.h) \o <<ChColon>> \o D2(dt.mi) \o <<ChColon>> \o D2(dt.s)
    \o (IF dt.us # 0 THEN <<ChDot>> \o D6(dt.us) ELSE <<>>)
    \o (IF dt.tz = "utc" THEN <<ChPlus>> \o D2(0) \o <<ChColon>> \o D2(0) ELSE <<>>)

\* f"{current_month}-01T00:00:00.000Z"
WindowStart(mk) ==
    mk \o <<ChDash>> \o D2(1) \o <<ChT>> \o D2(0) \o <<ChColon>> \o D2(0)
       \o <<ChColon>> \o D2(0) \o <<ChDot>> \o D3(0) \o <<ChZ>>

\* (mutation) the upper bound names day 30
WindowEnd_30(mk) ==
    mk \o <<ChDash>> \o D2(30) \o <<ChT>> \o D2(23) \o <<ChColon>> \o D2(59)
       \o <<ChColon>> \o D2(59) \o <<ChDot>> \o D3(999) \o <<ChZ>>

\* f"{current_month}-31T23:59:59.999Z"
WindowEnd(mk) ==
    mk \o <<ChDash>> \o D2(31) \o <<ChT>> \o D2(23) \o <<ChColon>> \o D2(59)
       \o <<ChColon>> \o D2(59) \o <<ChDot>> \o D3(999) \o <<ChZ>>

\* {"date": {"$gte": WindowStart, "$lt": WindowEnd}}
InMonthWindow(date, mk) ==
    /\ StrLeq(WindowStart(mk), date)
    /\ StrLess(date, WindowEnd(mk))

\* datetime.fromisoformat(value.replace('Z', '+00:00')) on a stored date
Num(s) == LET RECURSIVE N(_, _)
              N(t, acc) == IF t = <<>> THEN acc
                           ELSE N(Tail(t), acc * 10 + (Head(t) - ChZero))
          IN N(s, 0)

fromisoformat(s) ==
    LET frac == Len(s) > 19 /\ s[20] = ChDot
        rest == IF frac THEN SubSeq(s, 27, Len(s)) ELSE SubSeq(s, 20, Len(s))
    IN [y |-> Num(SubSeq(s, 1, 4)), mo |-> Num(SubSeq(s, 6, 7)),
        d |-> Num(SubSeq(s, 9, 10)), h |-> Num(SubSeq(s, 12, 13)),
        mi |-> Num(SubSeq(s, 15, 16)), s |-> Num(SubSeq(s, 18, 19)),
        us |-> IF frac THEN Num(SubSeq(s, 21, 26)) ELSE 0,
        tz |-> IF rest = <<>> THEN "naive" ELSE "utc"]

(***************************************************************************)
(* Documents.                                                              *)
(***************************************************************************)
\* initialize_categories: the default catalog (ids from uuid4, in order)
DefaultNames ==
    <<"Food & Dining", "Transportation", "Utilities", "Entertainment",
      "Healthcare", "Shopping", "Education", "Travel", "Other">>

DefaultCatalog == {[id |-> i, name |-> DefaultNames[i]] : i \in 1..Len(DefaultNames)}

\* class Expense, as expense.dict() passed through prepare_for_mongo: the
\* date becomes its isoformat() string (created_at is left out of the model)
Expense(id, user_id, data, category_name) ==
    [id |-> id, user_id |-> user_id, amount |-> data.amount,
     category_id |-> data.category_id, category_name |-> category_name,
     description |-> data.description, date |-> isoformat(data.date)]

\* class Budget, as budget.dict(): spent_amount defaults to 0.0 and is stored
Budget(id, user_id, data, category_name, current_month) ==
    [id |-> id, user_id |-> user_id, category_id |-> data.category_id,
     category_name |-> category_name, monthly_limit |-> data.monthly_limit,
     current_month |-> current_month, spent_amount |-> 0]

\* parse_from_mongo: 'date' strings are parsed back to datetime
parse_from_mongo(doc) == [doc EXCEPT !.date = fromisoformat(doc.date)]

\* {"$group": {"_id": None, "total": {"$sum": "$amount"}}}
RECURSIVE SumAmount(_)
SumAmount(docs) ==
    IF docs = {} THEN 0
    ELSE LET e == CHOOSE x \in docs : TRUE
         IN e.amount + SumAmount(docs \ {e})

\* spent[0]["total"] if spent else 0.0 : $group yields no row for no input
TotalOrZero(docs) == IF docs = {} THEN 0 ELSE SumAmount(docs)

(***************************************************************************)
(* Requests.  req[p] is the request worker p handles: op is the handler,   *)
(* pc the await it is suspended at, user is current_user.id, arg the       *)
(* request's data, loc the handler's locals, status/body the response.     *)
(* t0 is history: the value of the id counter when the request arrived, so *)
(* that a document with a smaller id was inserted before the request came. *)
(***************************************************************************)
NoArg == [none |-> TRUE]

Idle == [op |-> "idle", pc |-> "idle", user |-> 0, arg |-> NoArg, loc |-> NoArg,
         status |-> 0, body |-> NoArg, t0 |-> 0]

Free(p) == req[p].pc \in {"idle", "done"}

At(p, op, pc) == req[p].op = op /\ req[p].pc = pc

Begin(p, op, pc, u, arg, loc) ==
    req' = [req EXCEPT ![p] = [op |-> op, pc |-> pc, user |-> u, arg |-> arg,
                               loc |-> loc, status |-> 0, body |-> NoArg,
                               t0 |-> nextId]]

Goto(p, pc, loc) == req' = [req EXCEPT ![p].pc = pc, ![p].loc = loc]

Respond(p, status, body) ==
    req' = [req EXCEPT ![p].pc = "done", ![p].status = status, ![p].body = body]

\* raise HTTPException(status_code=..., detail=...)
Raise(p, status, detail) == Respond(p, status, [detail |-> detail])

\* get_current_user: the credential names a user of db.users
Authenticated(u) == \E doc \in users : doc.id = u

\* get_current_user behind HTTPBearer, when it does not return a user: the
\* responses the request can get, by its credentials (none: no Authorization
\* header; invalid: a token that does not verify; expired; valid).
\*  - no header: HTTPBearer answers 403 (401 in later FastAPI releases)
\*    before get_current_user runs;
\*  - expired token: jwt.decode raises ExpiredSignatureError, caught, 401;
\*  - token that does not verify: jwt.decode raises a DecodeError, the first
\*    except clause does not match and the second names jwt.JWTError, which
\*    the jwt package (PyJWT) does not define: AttributeError, answered 500;
\*  - valid token of an id that is not in db.users: the HTTPException(401)
\*    is raised inside the try, and again reaches "except jwt.JWTError": 500.
Rejections(cred) ==
    CASE cred.kind = "none" ->
             {[status |-> 403, body |-> [detail |-> "Not authenticated"]],
              [status |-> 401, body |-> [detail |-> "Not authenticated"]]}
      [] cred.kind = "expired" ->
             {[status |-> 401, body |-> [detail |-> "Token expired"]]}
      [] cred.kind = "invalid" ->
             {[status |-> 500, body |-> [detail |-> "Internal Server Error"]]}
      [] cred.kind = "valid" ->
             IF Authenticated(cred.user_id) THEN {}
             ELSE {[status |-> 500, body |-> [detail |-> "Internal Server Error"]]}

\* a request to a route that depends on get_current_user, turned away by it
get_current_user_rejects(p, method, path, cred) ==
    /\ Free(p)
    /\ \E r \in Rejections(cred) :
          req' = [req EXCEPT ![p] =
                     [op |-> "get_current_user", pc |-> "done", user |-> 0,
                      arg |-> [method |-> method, path |-> path, credentials |-> cred],
                      loc |-> NoArg, status |-> r.status, body |-> r.body,
                      t0 |-> nextId]]
    /\ UNCHANGED <<clock, users, categories, expenses, budgets, creator, nextId>>

InFlight(op) == Cardinality({p \in Procs : req[p].op = op /\ req[p].pc # "done"})

Created(kind) == Cardinality({i \in DOMAIN creator : creator[i].kind = kind})

\* fewer than n documents of the kind have been inserted or are being inserted
Room(kind, op, n) == Created(kind) + InFlight(op) < n

Record(id, kind, u) ==
    creator' = [i \in DOMAIN creator \cup {id} |->
                   IF i = id THEN [kind |-> kind, user |-> u] ELSE creator[i]]

(***************************************************************************)
(* POST /expenses                                                          *)
(***************************************************************************)
create_expense_begin(p, u, data) ==
    /\ Free(p)
    /\ Authenticated(u)
    /\ Begin(p, "create_expense", "find_category", u, data, NoArg)
    /\ UNCHANGED <<clock, users, categories, expenses, budgets, creator, nextId>>

create_expense_find_category(p) ==
    /\ At(p, "create_expense", "find_category")
    /\ LET found == {c \in categories : c.id = req[p].arg.category_id}
       IN IF found = {}
          THEN Raise(p, 404, "Category not found")
          ELSE \E c \in found : Goto(p, "insert_one", [category_name |-> c.name])
    /\ UNCHANGED <<clock, users, categories, expenses, budgets, creator, nextId>>

create_expense_insert_one(p) ==
    /\ At(p, "create_expense", "insert_one")
    /\ LET doc == Expense(nextId, req[p].user, req[p].arg, req[p].loc.category_name)
       IN /\ expenses' = expenses \cup {doc}
          /\ Record(nextId, "expense", req[p].user)
          /\ nextId' = nextId + 1
          /\ Respond(p, 200, [expense |-> [doc EXCEPT !.date = req[p].arg.date]])
    /\ UNCHANGED <<clock, users, categories, budgets>>

(***************************************************************************)
(* GET /expenses.  The request may carry any query parameters; the handler *)
(* declares category_id, start_date and end_date only, and FastAPI drops   *)
(* the others (min_amount, max_amount, search are sets of at most one      *)
(* value, empty when the parameter is not sent; category_id 0 and the      *)
(* empty string stand for a parameter that is not sent).                   *)
(***************************************************************************)
\* query = {"user_id": ...}, plus "category_id" and "date" when supplied
ExpenseQuery(u, q) ==
    {e \in expenses :
        /\ e.user_id = u
        /\ (q.category_id # 0 => e.category_id = q.category_id)
        /\ (q.start_date # <<>> => StrLeq(q.start_date, e.date))
        /\ (q.end_date # <<>> => StrLeq(e.date, q.end_date))}

\* .sort("date", -1).to_list(length=None): every order of the documents in
\* which no later one has a greater date (equal dates come in any order)
SortedByDateDesc(docs) ==
    {s \in [1..Cardinality(docs) -> docs] :
        /\ \A i, j \in DOMAIN s : i # j => s[i] # s[j]
        /\ \A i, j \in DOMAIN s : i < j => ~StrLess(s[i].date, s[j].date)}

get_expenses_begin(p, u, q) ==
    /\ Free(p)
    /\ Authenticated(u)
    /\ Begin(p, "get_expenses", "find", u, q, NoArg)
    /\ UNCHANGED <<clock, users, categories, expenses, budgets, creator, nextId>>

get_expenses_find(p) ==
    /\ At(p, "get_expenses", "find")
    /\ \E s \in SortedByDateDesc(ExpenseQuery(req[p].user, req[p].arg)) :
          Respond(p, 200, [expenses |-> [i \in DOMAIN s |-> parse_from_mongo(s[i])]])
    /\ UNCHANGED <<clock, users, categories, expenses, budgets, creator, nextId>>

(***************************************************************************)
(* PUT /expenses/{expense_id}                                              *)
(***************************************************************************)
update_expense_begin(p, u, expense_id, data) ==
    /\ Free(p)
    /\ Authenticated(u)
    /\ Begin(p, "update_expense", "find_existing", u,
             [expense_id |-> expense_id, data |-> data], NoArg)
    /\ UNCHANGED <<clock, users, categories, expenses, budgets, creator, nextId>>

\* The body of PUT /expenses/{expense_id} is an ExpenseCreate: a body that
\* lacks one of its fields (all are required) is answered 422 by the request
\* validation, after the dependencies and before the handler runs.
ExpenseCreateFields == {"amount", "category_id", "description", "date"}

update_expense_invalid(p, u, expense_id, data) ==
    /\ Free(p)
    /\ Authenticated(u)
    /\ ~(ExpenseCreateFields \subseteq DOMAIN data)
    /\ req' = [req EXCEPT ![p] =
                  [op |-> "update_expense", pc |-> "done", user |-> u,
                   arg |-> [expense_id |-> expense_id, data |-> data],
                   loc |-> NoArg, status |-> 422,
                   body |-> [detail |-> "Field required"], t0 |-> nextId]]
    /\ UNCHANGED <<clock, users, categories, expenses, budgets, creator, nextId>>

\* (mutation) the ownership lookup filters on the id alone
update_expense_find_existing_anyuser(p) ==
    /\ At(p, "update_expense", "find_existing")
    /\ IF \E e \in expenses : e.id = req[p].arg.expense_id
       THEN Goto(p, "find_category", NoArg)
       ELSE Raise(p, 404, "Expense not found")
    /\ UNCHANGED <<clock, users, categories, expenses, budgets, creator, nextId>>

update_expense_find_existing(p) ==
    /\ At(p, "update_expense", "find_existing")
    /\ IF \E e \in expenses : e.id = req[p].arg.expense_id /\ e.user_id = req[p].user
       THEN Goto(p, "find_category", NoArg)
       ELSE Raise(p, 404, "Expense not found")
    /\ UNCHANGED <<clock, users, categories, expenses, budgets, creator, nextId>>

\* (mutation) the category lookup's result is not checked
update_expense_find_category_unchecked(p) ==
    /\ At(p, "update_expense", "find_category")
    /\ LET found == {c \in categories : c.id = req[p].arg.data.category_id}
       IN IF found = {}
          THEN Goto(p, "update_one", [category_name |-> "Other"])
          ELSE \E c \in found : Goto(p, "update_one", [category_name |-> c.name])
    /\ UNCHANGED <<clock, users, categories, expenses, budgets, creator, nextId>>

update_expense_find_category(p) ==
    /\ At(p, "update_expense", "find_category")
    /\ LET found == {c \in categories : c.id = req[p].arg.data.category_id}
       IN IF found = {}
          THEN Raise(p, 404, "Category not found")
          ELSE \E c \in found : Goto(p, "update_one", [category_name |-> c.name])
    /\ UNCHANGED <<clock, users, categories, expenses, budgets, creator, nextId>>

\* (mutation) update_data has no "category_name"
UpdateOneExpense_stalename(expense_id, data, category_name) ==
    LET match == {e \in expenses : e.id = expense_id}
    IN IF match = {}
       THEN {expenses}
       ELSE {(expenses \ {e}) \cup
                {[e EXCEPT !.amount = data.amount,
                           !.category_id = data.category_id,
                           !.description = data.description,
                           !.date = isoformat(data.date)]} : e \in match}

\* db.expenses.update_one({"id": expense_id}, {"$set": update_data})
UpdateOneExpense(expense_id, data, category_name) ==
    LET match == {e \in expenses : e.id = expense_id}
    IN IF match = {}
       THEN {expenses}
       ELSE {(expenses \ {e}) \cup
                {[e EXCEPT !.amount = data.amount,
                           !.category_id = data.category_id,
                           !.category_name = category_name,
                           !.description = data.description,
                           !.date = isoformat(data.date)]} : e \in match}

update_expense_update_one(p) ==
    /\ At(p, "update_expense", "update_one")
    /\ expenses' \in UpdateOneExpense(req[p].arg.expense_id, req[p].arg.data,
                                      req[p].loc.category_name)
    /\ Goto(p, "find_updated", NoArg)
    /\ UNCHANGED <<clock, users, categories, budgets, creator, nextId>>

\* Expense(**parse_from_mongo(updated_expense)): find_one gives None when the
\* document is gone, and Expense(**None) is a TypeError (an unhandled 500)
update_expense_find_updated(p) ==
    /\ At(p, "update_expense", "find_updated")
    /\ LET found == {e \in expenses : e.id = req[p].arg.expense_id}
       IN IF found = {}
          THEN Raise(p, 500, "Internal Server Error")
          ELSE \E e \in found : Respond(p, 200, [expense |-> parse_from_mongo(e)])
    /\ UNCHANGED <<clock, users, categories, expenses, budgets, creator, nextId>>

(***************************************************************************)
(* DELETE /expenses/{expense_id}                                           *)
(***************************************************************************)
delete_expense_begin(p, u, expense_id) ==
    /\ Free(p)
    /\ Authenticated(u)
    /\ Begin(p, "delete_expense", "delete_one", u, [expense_id |-> expense_id], NoArg)
    /\ UNCHANGED <<clock, users, categories, expenses, budgets, creator, nextId>>

\* (mutation) deleted_count is not looked at: every delete is acknowledged
delete_expense_delete_one_nocheck(p) ==
    /\ At(p, "delete_expense", "delete_one")
    /\ LET match == {e \in expenses : e.id = req[p].arg.expense_id
                                      /\ e.user_id = req[p].user}
       IN /\ expenses' \in (IF match = {} THEN {expenses}
                                            ELSE {expenses \ {e} : e \in match})
          /\ Respond(p, 200, [message |-> "Expense deleted successfully"])
    /\ UNCHANGED <<clock, users, categories, budgets, creator, nextId>>

\* db.expenses.delete_one({"id": expense_id, "user_id": current_user.id})
delete_expense_delete_one(p) ==
    /\ At(p, "delete_expense", "delete_one")
    /\ LET match == {e \in expenses : e.id = req[p].arg.expense_id
                                      /\ e.user_id = req[p].user}
       IN IF match = {}
          THEN /\ Raise(p, 404, "Expense not found")
               /\ UNCHANGED expenses
          ELSE \E e \in match :
                  /\ expenses' = expenses \ {e}
                  /\ Respond(p, 200, [message |-> "Expense deleted successfully"])
    /\ UNCHANGED <<clock, users, categories, budgets, creator, nextId>>

(***************************************************************************)
(* POST /budgets                                                           *)
(***************************************************************************)
create_budget_begin(p, u, data) ==
    /\ Free(p)
    /\ Authenticated(u)
    /\ Begin(p, "create_budget", "find_category", u, data, NoArg)
    /\ UNCHANGED <<clock, users, categories, expenses, budgets, creator, nextId>>

\* current_month = datetime.now(timezone.utc).strftime("%Y-%m") is taken when
\* the category lookup returns, before the next await
create_budget_find_category(p) ==
    /\ At(p, "create_budget", "find_category")
    /\ LET found == {c \in categories : c.id = req[p].arg.category_id}
       IN IF found = {}
          THEN Raise(p, 404, "Category not found")
          ELSE \E c \in found :
                  Goto(p, "find_existing",
                       [category_name |-> c.name, current_month |-> MonthKey(clock)])
    /\ UNCHANGED <<clock, users, categories, expenses, budgets, creator, nextId>>

\* (mutation) the duplicate lookup filters on "id" instead of "category_id"
ExistingBudget_id(u, category_id, current_month) ==
    \E b \in budgets : /\ b.user_id = u
                       /\ b.id = category_id
                       /\ b.current_month = current_month

\* db.budgets.find_one({"user_id", "category_id", "current_month"})
ExistingBudget(u, category_id, current_month) ==
    \E b \in budgets : /\ b.user_id = u
                       /\ b.category_id = category_id
                       /\ b.current_month = current_month

create_budget_find_existing(p) ==
    /\ At(p, "create_budget", "find_existing")
    /\ IF ExistingBudget(req[p].user, req[p].arg.category_id, req[p].loc.current_month)
       THEN Raise(p, 400, "Budget already exists for this category this month")
       ELSE Goto(p, "insert_one", req[p].loc)
    /\ UNCHANGED <<clock, users, categories, expenses, budgets, creator, nextId>>

create_budget_insert_one(p) ==
    /\ At(p, "create_budget", "insert_one")
    /\ LET doc == Budget(nextId, req[p].user, req[p].arg, req[p].loc.category_name,
                         req[p].loc.current_month)
       IN /\ budgets' = budgets \cup {doc}
          /\ Record(nextId, "budget", req[p].user)
          /\ nextId' = nextId + 1
          /\ Respond(p, 200, [budget |-> doc])
    /\ UNCHANGED <<clock, users, categories, expenses>>

(***************************************************************************)
(* GET /budgets                                                            *)
(***************************************************************************)
\* db.budgets.find({"user_id", "current_month"}).to_list(length=None): the
\* documents in the store's natural order, which is any order
Orders(docs) ==
    {s \in [1..Cardinality(docs) -> docs] : \A i, j \in DOMAIN s : i # j => s[i] # s[j]}

\* (mutation) the find leaves the month key out
FindBudgets_anymonth(u, current_month) ==
    Orders({b \in budgets : b.user_id = u})

FindBudgets(u, current_month) ==
    Orders({b \in budgets : b.user_id = u /\ b.current_month = current_month})

\* (mutation) the aggregate's $match leaves the user out
SpentMatch_anyuser(u, category_id, current_month) ==
    {e \in expenses : /\ e.category_id = category_id
                      /\ InMonthWindow(e.date, current_month)}

\* the aggregate's $match: the user, the category and the month window
SpentMatch(u, category_id, current_month) ==
    {e \in expenses : /\ e.user_id = u
                      /\ e.category_id = category_id
                      /\ InMonthWindow(e.date, current_month)}

SpentAmount(u, category_id, current_month) ==
    TotalOrZero(SpentMatch(u, category_id, current_month))

get_budgets_begin(p, u) ==
    /\ Free(p)
    /\ Authenticated(u)
    /\ Begin(p, "get_budgets", "find", u, NoArg, [current_month |-> MonthKey(clock)])
    /\ UNCHANGED <<clock, users, categories, expenses, budgets, creator, nextId>>

get_budgets_find(p) ==
    /\ At(p, "get_budgets", "find")
    /\ \E found \in FindBudgets(req[p].user, req[p].loc.current_month) :
          IF found = <<>>
          THEN Respond(p, 200, [budgets |-> <<>>])
          ELSE Goto(p, "aggregate", [current_month |-> req[p].loc.current_month,
                                     todo |-> found, rows |-> <<>>])
    /\ UNCHANGED <<clock, users, categories, expenses, budgets, creator, nextId>>

get_budgets_aggregate(p) ==
    /\ At(p, "get_budgets", "aggregate")
    /\ LET l == req[p].loc
           budget == Head(l.todo)
           spent == SpentAmount(req[p].user, budget.category_id, l.current_month)
           rows == Append(l.rows, [budget EXCEPT !.spent_amount = spent])
       IN IF Tail(l.todo) = <<>>
          THEN Respond(p, 200, [budgets |-> rows])
          ELSE Goto(p, "aggregate", [l EXCEPT !.todo = Tail(l.todo), !.rows = rows])
    /\ UNCHANGED <<clock, users, categories, expenses, budgets, creator, nextId>>

(***************************************************************************)
(* GET /dashboard                                                          *)
(***************************************************************************)
BreakdownLimit == 10
RecentLimit == 5

\* to_list(n) / limit(n): the first n of the cursor's documents
FirstN(s, n) == IF Len(s) <= n THEN s ELSE SubSeq(s, 1, n)

\* (mutation) the $match leaves the user out
MonthlyMatch_anyuser(u, current_month) ==
    {e \in expenses : InMonthWindow(e.date, current_month)}

\* the monthly and categories pipelines' $match: the user and the month window
MonthlyMatch(u, current_month) ==
    {e \in expenses : e.user_id = u /\ InMonthWindow(e.date, current_month)}

\* {"$group": {"_id": "$category_name", "amount": {"$sum": "$amount"}}}
GroupByCategoryName(docs) ==
    {[name |-> n, amount |-> SumAmount({e \in docs : e.category_name = n})] :
        n \in {e.category_name : e \in docs}}

\* (mutation) the pipeline has no $sort stage
SortedByAmountDesc_unsorted(rows) == Orders(rows)

\* {"$sort": {"amount": -1}}: equal amounts come in any order
SortedByAmountDesc(rows) ==
    {s \in Orders(rows) : \A i, j \in DOMAIN s : i < j => s[i].amount >= s[j].amount}

\* a / b on floats: ZeroDivisionError when b is zero, else the quotient,
\* kept exact as numerator over denominator
TrueDiv(a, b) == IF b = 0 THEN [fault |-> TRUE, num |-> 0, den |-> 1]
                 ELSE [fault |-> FALSE, num |-> a, den |-> b]

Times(q, k) == [q EXCEPT !.num = q.num * k]

\* (mutation) the quotient is taken whatever the limit
Percentage_unguarded(spent_amount, monthly_limit) ==
    Times(TrueDiv(spent_amount, monthly_limit), 100)

\* (spent_amount / budget["monthly_limit"]) * 100 if budget["monthly_limit"] > 0 else 0
Percentage(spent_amount, monthly_limit) ==
    IF monthly_limit > 0
    THEN Times(TrueDiv(spent_amount, monthly_limit), 100)
    ELSE [fault |-> FALSE, num |-> 0, den |-> 1]

get_dashboard_begin(p, u) ==
    /\ Free(p)
    /\ Authenticated(u)
    /\ Begin(p, "get_dashboard", "total", u, NoArg, [current_month |-> MonthKey(clock)])
    /\ UNCHANGED <<clock, users, categories, expenses, budgets, creator, nextId>>

\* (mutation) the total pipeline's $match carries the month window as well
get_dashboard_total_windowed(p) ==
    /\ At(p, "get_dashboard", "total")
    /\ Goto(p, "monthly",
            [current_month |-> req[p].loc.current_month,
             total_expenses |->
                 TotalOrZero(MonthlyMatch(req[p].user, req[p].loc.current_month))])
    /\ UNCHANGED <<clock, users, categories, expenses, budgets, creator, nextId>>

get_dashboard_total(p) ==
    /\ At(p, "get_dashboard", "total")
    /\ Goto(p, "monthly",
            [current_month |-> req[p].loc.current_month,
             total_expenses |-> TotalOrZero({e \in expenses : e.user_id = req[p].user})])
    /\ UNCHANGED <<clock, users, categories, expenses, budgets, creator, nextId>>

get_dashboard_monthly(p) ==
    /\ At(p, "get_dashboard", "monthly")
    /\ LET l == req[p].loc
       IN Goto(p, "categories",
               [current_month |-> l.current_month,
                total_expenses |-> l.total_expenses,
                monthly_expenses |->
                    TotalOrZero(MonthlyMatch(req[p].user, l.current_month))])
    /\ UNCHANGED <<clock, users, categories, expenses, budgets, creator, nextId>>

get_dashboard_categories(p) ==
    /\ At(p, "get_dashboard", "categories")
    /\ LET l == req[p].loc
           groups == GroupByCategoryName(MonthlyMatch(req[p].user, l.current_month))
       IN \E s \in SortedByAmountDesc(groups) :
             Goto(p, "recent",
                  [current_month |-> l.current_month,
                   total_expenses |-> l.total_expenses,
                   monthly_expenses |-> l.monthly_expenses,
                   categories_breakdown |-> FirstN(s, BreakdownLimit)])
    /\ UNCHANGED <<clock, users, categories, expenses, budgets, creator, nextId>>

get_dashboard_recent(p) ==
    /\ At(p, "get_dashboard", "recent")
    /\ LET l == req[p].loc
       IN \E s \in SortedByDateDesc({e \in expenses : e.user_id = req[p].user}) :
             Goto(p, "find_budgets",
                  [current_month |-> l.current_month,
                   total_expenses |-> l.total_expenses,
                   monthly_expenses |-> l.monthly_expenses,
                   categories_breakdown |-> l.categories_breakdown,
                   recent_expenses |->
                       LET r == FirstN(s, RecentLimit)
                       IN [i \in DOMAIN r |-> parse_from_mongo(r[i])]])
    /\ UNCHANGED <<clock, users, categories, expenses, budgets, creator, nextId>>

\* DashboardData(...)
DashboardData(l, budget_status) ==
    [total_expenses |-> l.total_expenses,
     monthly_expenses |-> l.monthly_expenses,
     categories_breakdown |-> l.categories_breakdown,
     recent_expenses |-> l.recent_expenses,
     budget_status |-> budget_status]

get_dashboard_find_budgets(p) ==
    /\ At(p, "get_dashboard", "find_budgets")
    /\ LET l == req[p].loc
       IN \E found \in FindBudgets(req[p].user, l.current_month) :
             IF found = <<>>
             THEN Respond(p, 200, DashboardData(l, <<>>))
             ELSE Goto(p, "budget_status",
                       [current_month |-> l.current_month,
                        total_expenses |-> l.total_expenses,
                        monthly_expenses |-> l.monthly_expenses,
                        categories_breakdown |-> l.categories_breakdown,
                        recent_expenses |-> l.recent_expenses,
                        todo |-> found, budget_status |-> <<>>])
    /\ UNCHANGED <<clock, users, categories, expenses, budgets, creator, nextId>>

get_dashboard_budget_status(p) ==
    /\ At(p, "get_dashboard", "budget_status")
    /\ LET l == req[p].loc
           budget == Head(l.todo)
           spent_amount == SpentAmount(req[p].user, budget.category_id, l.current_month)
           percentage == Percentage(spent_amount, budget.monthly_limit)
           rows == Append(l.budget_status,
                          [category_name |-> budget.category_name,
                           monthly_limit |-> budget.monthly_limit,
                           spent_amount |-> spent_amount,
                           percentage |-> percentage])
       IN IF percentage.fault
          THEN Raise(p, 500, "Internal Server Error")
          ELSE IF Tail(l.todo) = <<>>
          THEN Respond(p, 200, DashboardData(l, rows))
          ELSE Goto(p, "budget_status",
                    [l EXCEPT !.todo = Tail(l.todo), !.budget_status = rows])
    /\ UNCHANGED <<clock, users, categories, expenses, budgets, creator, nextId>>

(***************************************************************************)
(* POST /auth/register.  The user document is kept as id, email and name   *)
(* (password_hash and created_at are left out of the model); the response  *)
(* is the token's user.                                                    *)
(***************************************************************************)
register_begin(p, data) ==
    /\ Free(p)
    /\ Begin(p, "register", "find_existing", 0, data, NoArg)
    /\ UNCHANGED <<clock, users, categories, expenses, budgets, creator, nextId>>

\* existing_user = await db.users.find_one({"email": user_data.email})
register_find_existing(p) ==
    /\ At(p, "register", "find_existing")
    /\ IF \E doc \in users : doc.email = req[p].arg.email
       THEN Raise(p, 400, "Email already registered")
       ELSE Goto(p, "insert_one", NoArg)
    /\ UNCHANGED <<clock, users, categories, expenses, budgets, creator, nextId>>

register_insert_one(p) ==
    /\ At(p, "register", "insert_one")
    /\ LET doc == [id |-> nextId, email |-> req[p].arg.email, name |-> req[p].arg.name]
       IN /\ users' = users \cup {doc}
          /\ Record(nextId, "user", nextId)
          /\ nextId' = nextId + 1
          /\ Respond(p, 200, [user |-> doc])
    /\ UNCHANGED <<clock, categories, expenses, budgets>>

(***************************************************************************)
(* startup_event -> initialize_categories, run by every process that       *)
(* starts against the store; req[p] is then the position of process p.     *)
(***************************************************************************)
\* the default_categories list with fresh ids (icon and color are left out)
SeedCategories(first) ==
    {[id |-> first + i - 1, name |-> DefaultNames[i]] : i \in 1..Len(DefaultNames)}

startup_event(p) ==
    /\ Free(p)
    /\ Begin(p, "initialize_categories", "count_documents", 0, NoArg, NoArg)
    /\ UNCHANGED <<clock, users, categories, expenses, budgets, creator, nextId>>

\* existing_categories = await db.categories.count_documents({})
initialize_categories_count_documents(p) ==
    /\ At(p, "initialize_categories", "count_documents")
    /\ IF Cardinality(categories) = 0
       THEN Goto(p, "insert_many", NoArg)
       ELSE Respond(p, 0, [inserted |-> 0])
    /\ UNCHANGED <<clock, users, categories, expenses, budgets, creator, nextId>>

\* await db.categories.insert_many(default_categories)
initialize_categories_insert_many(p) ==
    /\ At(p, "initialize_categories", "insert_many")
    /\ categories' = categories \cup SeedCategories(nextId)
    /\ nextId' = nextId + Len(DefaultNames)
    /\ Respond(p, 0, [inserted |-> Len(DefaultNames)])
    /\ UNCHANGED <<clock, users, expenses, budgets, creator>>

(***************************************************************************)
(* GET /categories (the list is kept as the set of its documents)          *)
(***************************************************************************)
get_categories_begin(p) ==
    /\ Free(p)
    /\ Begin(p, "get_categories", "find", 0, NoArg, NoArg)
    /\ UNCHANGED <<clock, users, categories, expenses, budgets, creator, nextId>>

get_categories_find(p) ==
    /\ At(p, "get_categories", "find")
    /\ Respond(p, 200, [categories |-> categories])
    /\ UNCHANGED <<clock, users, categories, expenses, budgets, creator, nextId>>

(***************************************************************************)
(* The route table of api_router (prefix /api): a request whose method and *)
(* path match no route is answered 404 "Not Found" by the router, before   *)
(* any dependency or handler runs.                                         *)
(***************************************************************************)
Routes ==
    {<<"POST", "/auth/register">>, <<"POST", "/auth/login">>,
     <<"GET", "/categories">>,
     <<"POST", "/expenses">>, <<"GET", "/expenses">>,
     <<"PUT", "/expenses/{expense_id}">>, <<"DELETE", "/expenses/{expense_id}">>,
     <<"POST", "/budgets">>, <<"GET", "/budgets">>,
     <<"GET", "/dashboard">>, <<"GET", "/health">>}

no_route(p, u, method, path, id, data) ==
    /\ Free(p)
    /\ <<method, path>> \notin Routes
    /\ req' = [req EXCEPT ![p] =
                  [op |-> "no_route", pc |-> "done", user |-> u,
                   arg |-> [method |-> method, path |-> path, id |-> id, data |-> data],
                   loc |-> NoArg, status |-> 404, body |-> [detail |-> "Not Found"],
                   t0 |-> nextId]]
    /\ UNCHANGED <<clock, users, categories, expenses, budgets, creator, nextId>>

(***************************************************************************)
(* The wall clock moves on to the next month.                              *)
(***************************************************************************)
NextMonth(ym) == IF ym[2] = 12 THEN <<ym[1] + 1, 1>> ELSE <<ym[1], ym[2] + 1>>

\* the clock moves from one month into the next
Tick == /\ clock' = NextMonth(clock)
        /\ UNCHANGED <<users, categories, expenses, budgets, creator, nextId, req>>

(***************************************************************************)
(* The store after the first startup (initialize_categories has seeded the *)
(* catalog with ids 1..9) and two registrations (users 10 and 11).         *)
(***************************************************************************)
UserIds == {10, 11}

InitStore ==
    /\ users = {[id |-> u, email |-> u] : u \in UserIds}
    /\ categories = DefaultCatalog
    /\ expenses = {}
    /\ budgets = {}
    /\ creator = <<>>
    /\ nextId = 12
    /\ req = [p \in Procs |-> Idle]

ExpenseIds == {e.id : e \in expenses}
BudgetIds == {b.id : b \in budgets}
Done(p, op) == req[p].op = op /\ req[p].pc = "done"

\* a datetime of the request body
DT(y, mo, d, h, mi, s, us, tz) ==
    [y |-> y, mo |-> mo, d |-> d, h |-> h, mi |-> mi, s |-> s, us |-> us, tz |-> tz]

(***************************************************************************)
(* Budget registry under concurrency: POST /budgets requests of two users  *)
(* for one category, interleaved at their awaits, while the clock passes   *)
(* from December into January.                                             *)
(***************************************************************************)
BudgetClock0 == <<2024, 12>>
BudgetData == [category_id : {1}, monthly_limit : {500, 750}]

InitBudgets == InitStore /\ clock = BudgetClock0

NextBudgets ==
    \/ \E p \in Procs, u \in UserIds, data \in BudgetData :
          Room("budget", "create_budget", MaxBudgets) /\ create_budget_begin(p, u, data)
    \/ \E p \in Procs : create_budget_find_category(p)
    \/ \E p \in Procs : create_budget_find_existing(p)
    \/ \E p \in Procs : create_budget_insert_one(p)
    \/ clock = BudgetClock0 /\ Tick

SpecBudgets == InitBudgets /\ [][NextBudgets]_vars

(***************************************************************************)
(* Expense ledger under concurrency: POST /expenses, PUT and DELETE        *)
(* /expenses/{expense_id}, interleaved at their awaits.  One user creates   *)
(* expenses; both users update and delete them.                            *)
(***************************************************************************)
LedgerOwners == {10}
LedgerClock0 == <<2024, 6>>
LedgerCreate ==
    [amount : {5}, category_id : {1}, description : {<<"lunch">>},
     date : {DT(2024, 6, 15, 12, 0, 0, 0, "utc")}]
LedgerUpdate ==
    [amount : {9}, category_id : {2}, description : {<<"dinner">>},
     date : {DT(2024, 6, 16, 0, 0, 0, 0, "utc")}]

\* every expense id handed out so far, in the ledger or deleted from it
KnownExpenseIds == {i \in DOMAIN creator : creator[i].kind = "expense"}

InitLedger == InitStore /\ clock = LedgerClock0

NextLedger ==
    \/ \E p \in Procs, u \in LedgerOwners, data \in LedgerCreate :
          /\ Room("expense", "create_expense", MaxLedgerExpenses)
          /\ create_expense_begin(p, u, data)
    \/ \E p \in Procs : create_expense_find_category(p)
    \/ \E p \in Procs : create_expense_insert_one(p)
    \/ \E p \in Procs, u \in UserIds, id \in KnownExpenseIds, data \in LedgerUpdate :
          update_expense_begin(p, u, id, data)
    \/ \E p \in Procs : update_expense_find_existing(p)
    \/ \E p \in Procs : update_expense_find_category(p)
    \/ \E p \in Procs : update_expense_update_one(p)
    \/ \E p \in Procs : update_expense_find_updated(p)
    \/ \E p \in Procs, u \in UserIds, id \in KnownExpenseIds : delete_expense_begin(p, u, id)
    \/ \E p \in Procs : delete_expense_delete_one(p)

SpecLedger == InitLedger /\ [][NextLedger]_vars

(***************************************************************************)
(* The calendar (used to draw request dates and to state the claims; the   *)
(* program itself never computes a month's length).                        *)
(***************************************************************************)
IsLeap(y) == (y % 4 = 0 /\ y % 100 # 0) \/ y % 400 = 0

DaysIn(ym) ==
    IF ym[2] = 2 THEN (IF IsLeap(ym[1]) THEN 29 ELSE 28)
    ELSE IF ym[2] \in {4, 6, 9, 11} THEN 30 ELSE 31

PrevMonth(ym) == IF ym[2] = 1 THEN <<ym[1] - 1, 12>> ELSE <<ym[1], ym[2] - 1>>

\* the requests below run one at a time, on one worker
OneWorker == {1}

MaxExpenses == 2   \* expenses ever inserted (requests one at a time)

(***************************************************************************)
(* End of the month: one user, one request at a time, in a month of 28,    *)
(* 29, 30 or 31 days; expenses dated mid-month, on the month's last day    *)
(* and on the first day of the next month, budgets, GET /budgets and GET   *)
(* /dashboard.  Each sample date comes with its own amount (1, 2, 4, 8),   *)
(* so that a sum tells which dates it counted.                             *)
(***************************************************************************)
MonthSamples == {<<2023, 2>>, <<2024, 2>>, <<2024, 4>>, <<2024, 12>>}
MonthUsers == {10}

MonthEndDates(ym) ==
    LET n == NextMonth(ym)
    IN {<<1, DT(ym[1], ym[2], 15, 12, 30, 0, 0, "utc")>>,
        <<2, DT(ym[1], ym[2], DaysIn(ym), 0, 0, 0, 0, "naive")>>,
        <<4, DT(ym[1], ym[2], DaysIn(ym), 23, 59, 59, 999999, "utc")>>,
        <<8, DT(n[1], n[2], 1, 0, 0, 0, 0, "utc")>>}

MonthEndCreate(ym) ==
    {[amount |-> ad[1], category_id |-> c, description |-> <<"lunch">>, date |-> ad[2]] :
        c \in {1, 2}, ad \in MonthEndDates(ym)}

MonthBudget == [category_id : {1}, monthly_limit : {100}]

InitMonthEnd == InitStore /\ clock \in MonthSamples

\* the reads of GET /budgets and GET /dashboard, step by step
ReadBudgets(W, U) ==
    \/ \E p \in W, u \in U : get_budgets_begin(p, u)
    \/ \E p \in W : get_budgets_find(p)
    \/ \E p \in W : get_budgets_aggregate(p)

ReadDashboard(W, U) ==
    \/ \E p \in W, u \in U : get_dashboard_begin(p, u)
    \/ \E p \in W : get_dashboard_total(p)
    \/ \E p \in W : get_dashboard_monthly(p)
    \/ \E p \in W : get_dashboard_categories(p)
    \/ \E p \in W : get_dashboard_recent(p)
    \/ \E p \in W : get_dashboard_find_budgets(p)
    \/ \E p \in W : get_dashboard_budget_status(p)

\* POST /expenses and POST /budgets, step by step
\* Data[u] holds the request bodies user u sends
CreateExpenses(W, U, Data, max) ==
    \/ \E p \in W, u \in U : \E data \in Data[u] :
          Room("expense", "create_expense", max) /\ create_expense_begin(p, u, data)
    \/ \E p \in W : create_expense_find_category(p)
    \/ \E p \in W : create_expense_insert_one(p)

CreateBudgets(W, U, Data, max) ==
    \/ \E p \in W, u \in U : \E data \in Data[u] :
          Room("budget", "create_budget", max) /\ create_budget_begin(p, u, data)
    \/ \E p \in W : create_budget_find_category(p)
    \/ \E p \in W : create_budget_find_existing(p)
    \/ \E p \in W : create_budget_insert_one(p)

NextMonthEnd ==
    \/ CreateExpenses(OneWorker, MonthUsers, [u \in UserIds |-> MonthEndCreate(clock)], MaxExpenses)
    \/ CreateBudgets(OneWorker, MonthUsers, [u \in UserIds |-> MonthBudget], MaxBudgets)
    \/ ReadBudgets(OneWorker, MonthUsers)
    \/ ReadDashboard(OneWorker, MonthUsers)

SpecMonthEnd == InitMonthEnd /\ [][NextMonthEnd]_vars

(***************************************************************************)
(* Two users, one request at a time: every expense and budget operation of *)
(* the API, each user also naming the other's expense and budget ids.      *)
(***************************************************************************)
Clock0 == <<2024, 6>>
\* user 10 records amounts of 3 and user 11 amounts of 7, so that a total
\* tells whose expenses it counted
ApiCreate ==
    [u \in UserIds |->
        [amount : {IF u = 10 THEN 3 ELSE 7}, category_id : {1},
         description : {<<"lunch">>}, date : {DT(2024, 6, 15, 12, 0, 0, 0, "utc")}]]
ApiUpdate ==
    [amount : {9}, category_id : {2}, description : {<<"dinner">>},
     date : {DT(2024, 6, 16, 0, 0, 0, 0, "utc")}]
\* and user 10 sets limits of 500, user 11 limits of 750
ApiBudget ==
    [u \in UserIds |-> [category_id : {1}, monthly_limit : {IF u = 10 THEN 500 ELSE 750}]]
NoFilter == [category_id |-> 0, start_date |-> <<>>, end_date |-> <<>>,
             min_amount |-> {}, max_amount |-> {}, search |-> {}]

Init == InitStore /\ clock = Clock0

ReadExpenses(W, U, Q) ==
    \/ \E p \in W, u \in U, q \in Q : get_expenses_begin(p, u, q)
    \/ \E p \in W : get_expenses_find(p)

UpdateExpenses(W, U, Data) ==
    \/ \E p \in W, u \in U, id \in KnownExpenseIds, data \in Data :
          update_expense_begin(p, u, id, data)
    \/ \E p \in W : update_expense_find_existing(p)
    \/ \E p \in W : update_expense_find_category(p)
    \/ \E p \in W : update_expense_update_one(p)
    \/ \E p \in W : update_expense_find_updated(p)

DeleteExpenses(W, U) ==
    \/ \E p \in W, u \in U, id \in KnownExpenseIds : delete_expense_begin(p, u, id)
    \/ \E p \in W : delete_expense_delete_one(p)

\* PUT and DELETE /budgets/{budget_id}
BudgetById(W, U, Limits) ==
    \/ \E p \in W, u \in U, id \in BudgetIds, limit \in Limits :
          no_route(p, u, "PUT", "/budgets/{budget_id}", id, [monthly_limit |-> limit])
    \/ \E p \in W, u \in U, id \in BudgetIds :
          no_route(p, u, "DELETE", "/budgets/{budget_id}", id, NoArg)

Next ==
    \/ CreateExpenses(OneWorker, UserIds, ApiCreate, MaxExpenses)
    \/ UpdateExpenses(OneWorker, UserIds, ApiUpdate)
    \/ DeleteExpenses(OneWorker, UserIds)
    \/ ReadExpenses(OneWorker, UserIds, {NoFilter})
    \/ CreateBudgets(OneWorker, UserIds, ApiBudget, MaxBudgets)
    \/ ReadBudgets(OneWorker, UserIds)
    \/ ReadDashboard(OneWorker, UserIds)
    \/ BudgetById(OneWorker, UserIds, {750})

Spec == Init /\ [][Next]_vars

(***************************************************************************)
(* Budget utilisation: one user with budgets of negative, zero and         *)
(* positive limit (BudgetCreate.monthly_limit is any float) and expenses   *)
(* below and above the limit, reading the dashboard.                       *)
(***************************************************************************)
PercentUsers == {10}
PercentCreate ==
    [amount : {3, 7}, category_id : {1}, description : {<<"lunch">>},
     date : {DT(2024, 6, 15, 12, 0, 0, 0, "utc")}]
PercentBudget == [category_id : {1, 2}, monthly_limit : {0 - 5, 0, 5}]

NextPercent ==
    \/ CreateExpenses(OneWorker, PercentUsers, [u \in UserIds |-> PercentCreate], MaxExpenses)
    \/ CreateBudgets(OneWorker, PercentUsers, [u \in UserIds |-> PercentBudget], MaxBudgets)
    \/ ReadDashboard(OneWorker, PercentUsers)

SpecPercent == Init /\ [][NextPercent]_vars

(***************************************************************************)
(* The first instant of the month: one user records expenses dated around  *)
(* the start of the current month and reads GET /budgets.                  *)
(***************************************************************************)
StartUsers == {10}
\* amounts tell the dates apart: 1 the last second of the month before, 2 the
\* first instant of the month, 4 half a millisecond later, 8 one second later
MonthStartDates(ym) ==
    LET b == PrevMonth(ym)
    IN {<<1, DT(b[1], b[2], DaysIn(b), 23, 59, 59, 0, "utc")>>,
        <<2, DT(ym[1], ym[2], 1, 0, 0, 0, 0, "utc")>>,
        <<4, DT(ym[1], ym[2], 1, 0, 0, 0, 500, "utc")>>,
        <<8, DT(ym[1], ym[2], 1, 0, 0, 1, 0, "utc")>>}

MonthStartCreate(ym) ==
    {[amount |-> ad[1], category_id |-> 1, description |-> <<"lunch">>, date |-> ad[2]] :
        ad \in MonthStartDates(ym)}

NextMonthStart ==
    \/ CreateExpenses(OneWorker, StartUsers, [u \in UserIds |-> MonthStartCreate(clock)], MaxExpenses)
    \/ CreateBudgets(OneWorker, StartUsers, [u \in UserIds |-> MonthBudget], MaxBudgets)
    \/ ReadBudgets(OneWorker, StartUsers)

SpecMonthStart == Init /\ [][NextMonthStart]_vars

(***************************************************************************)
(* Filtered listing: one user records a cheap taxi ride, a dearer team     *)
(* lunch and a hotel bill, and lists the expenses under each filter of the *)
(* test suite (test_get_expenses_with_filters).                            *)
(***************************************************************************)
FilterUsers == {10}
FilterCreate ==
    {[amount |-> 5, category_id |-> 2, description |-> <<"taxi">>,
      date |-> DT(2024, 6, 10, 9, 0, 0, 0, "utc")],
     [amount |-> 50, category_id |-> 1, description |-> <<"team", "lunch">>,
      date |-> DT(2024, 6, 20, 13, 0, 0, 0, "utc")],
     [amount |-> 500, category_id |-> 1, description |-> <<"hotel">>,
      date |-> DT(2024, 7, 2, 18, 0, 0, 0, "utc")]}

Filters ==
    {NoFilter,
     [NoFilter EXCEPT !.category_id = 1],
     [NoFilter EXCEPT !.start_date = isoformat(DT(2024, 6, 15, 0, 0, 0, 0, "utc")),
                      !.end_date = isoformat(DT(2024, 6, 30, 0, 0, 0, 0, "utc"))],
     [NoFilter EXCEPT !.min_amount = {10}, !.max_amount = {100}],
     [NoFilter EXCEPT !.search = {"lunch"}],
     [NoFilter EXCEPT !.category_id = 1, !.max_amount = {10}]}

NextFilter ==
    \/ CreateExpenses(OneWorker, FilterUsers, [u \in UserIds |-> FilterCreate], MaxExpenses)
    \/ ReadExpenses(OneWorker, FilterUsers, Filters)

SpecFilter == Init /\ [][NextFilter]_vars

(***************************************************************************)
(* Date ranges: one user records expenses on the first and the last day of *)
(* 2024 and in between, and lists them under the date range of the test   *)
(* suite (date-only bounds) and under bounds equal to a stored date.       *)
(***************************************************************************)
\* the text "YYYY-MM-DD" of a query parameter
DateOnly(y, mo, d) == D4(y) \o <<ChDash>> \o D2(mo) \o <<ChDash>> \o D2(d)

RangeUsers == {10}
RangeCreate ==
    {[amount |-> 1, category_id |-> 1, description |-> <<"lunch">>,
      date |-> DT(2024, 1, 1, 0, 0, 0, 0, "utc")],
     [amount |-> 2, category_id |-> 1, description |-> <<"lunch">>,
      date |-> DT(2024, 6, 10, 9, 0, 0, 0, "utc")],
     [amount |-> 4, category_id |-> 1, description |-> <<"lunch">>,
      date |-> DT(2024, 12, 31, 10, 0, 0, 0, "utc")]}

Ranges ==
    {NoFilter,
     [NoFilter EXCEPT !.start_date = DateOnly(2024, 1, 1),
                      !.end_date = DateOnly(2024, 12, 31)],
     [NoFilter EXCEPT !.start_date = isoformat(DT(2024, 6, 10, 9, 0, 0, 0, "utc")),
                      !.end_date = isoformat(DT(2024, 6, 10, 9, 0, 0, 0, "utc"))],
     [NoFilter EXCEPT !.end_date = isoformat(DT(2024, 12, 31, 10, 0, 0, 0, "utc"))]}

NextRange ==
    \/ CreateExpenses(OneWorker, RangeUsers, [u \in UserIds |-> RangeCreate], MaxExpenses)
    \/ ReadExpenses(OneWorker, RangeUsers, Ranges)

SpecRange == Init /\ [][NextRange]_vars

(***************************************************************************)
(* Sorted listing: one user records expenses that are the cheaper the      *)
(* later (so that the order by date and the order by amount differ), lists *)
(* them with the sort parameters of the test suite                         *)
(* (test_get_expenses_with_sorting); sort_by and sort_order are sets of at *)
(* most one value, empty when the parameter is not sent.                   *)
(***************************************************************************)
SortUsers == {10}
SortCreate ==
    {[amount |-> 50, category_id |-> 1, description |-> <<"lunch">>,
      date |-> DT(2024, 6, 10, 9, 0, 0, 0, "utc")],
     [amount |-> 20, category_id |-> 1, description |-> <<"lunch">>,
      date |-> DT(2024, 6, 15, 9, 0, 0, 0, "utc")],
     [amount |-> 5, category_id |-> 1, description |-> <<"lunch">>,
      date |-> DT(2024, 6, 20, 9, 0, 0, 0, "utc")]}

SortQuery(by, order) ==
    [category_id |-> 0, start_date |-> <<>>, end_date |-> <<>>,
     min_amount |-> {}, max_amount |-> {}, search |-> {},
     sort_by |-> by, sort_order |-> order]

Sorts ==
    {SortQuery({}, {}), SortQuery({"amount"}, {"desc"}), SortQuery({"date"}, {"asc"}),
     SortQuery({"amount"}, {"asc"}), SortQuery({"date"}, {"desc"})}

NextSort ==
    \/ CreateExpenses(OneWorker, SortUsers, [u \in UserIds |-> SortCreate], MaxExpenses)
    \/ ReadExpenses(OneWorker, SortUsers, Sorts)

SpecSort == Init /\ [][NextSort]_vars

(***************************************************************************)
(* Round trip: one user creates expenses whose dates are aware or naive,   *)
(* with and without microseconds, and lists them, on two workers so that a *)
(* create's response is still at hand when the listing is answered.        *)
(***************************************************************************)
TwoWorkers == {1, 2}
TripUsers == {10}
TripCreate ==
    {[amount |-> 3, category_id |-> 1, description |-> <<"lunch">>,
      date |-> DT(2024, 6, 15, 12, 30, 45, 123456, "utc")],
     [amount |-> 7, category_id |-> 2, description |-> <<"taxi">>,
      date |-> DT(2024, 6, 1, 0, 0, 0, 0, "utc")],
     [amount |-> 9, category_id |-> 1, description |-> <<>>,
      date |-> DT(2023, 12, 31, 23, 59, 59, 0, "naive")]}

NextTrip ==
    \/ CreateExpenses(TwoWorkers, TripUsers, [u \in UserIds |-> TripCreate], MaxExpenses)
    \/ ReadExpenses(TwoWorkers, TripUsers, {NoFilter})

SpecTrip == Init /\ [][NextTrip]_vars

(***************************************************************************)
(* Unknown categories: expenses and budgets are created and expenses       *)
(* updated with a category id of the catalog or with one that is not in    *)
(* it; the second user sends the updates to the first user's expenses.     *)
(***************************************************************************)
UnknownCategory == 99
CatalogOwners == {10}
CatalogCreate ==
    [amount : {3}, category_id : {1, UnknownCategory}, description : {<<"lunch">>},
     date : {DT(2024, 6, 15, 12, 0, 0, 0, "utc")}]
CatalogUpdate ==
    [amount : {9}, category_id : {2, UnknownCategory}, description : {<<"dinner">>},
     date : {DT(2024, 6, 16, 0, 0, 0, 0, "utc")}]
CatalogBudget == [category_id : {1, UnknownCategory}, monthly_limit : {500}]

NextCatalog ==
    \/ CreateExpenses(OneWorker, CatalogOwners, [u \in UserIds |-> CatalogCreate], MaxExpenses)
    \/ UpdateExpenses(OneWorker, UserIds, CatalogUpdate)
    \/ CreateBudgets(OneWorker, CatalogOwners, [u \in UserIds |-> CatalogBudget], MaxBudgets)

SpecCatalog == Init /\ [][NextCatalog]_vars

(***************************************************************************)
(* Month rollover: two users create budgets for one category and list      *)
(* them, one request at a time, while the clock passes from December into  *)
(* January (also in the middle of a request).                              *)
(***************************************************************************)
RolloverBudget == [category_id : {1}, monthly_limit : {500}]

NextRollover ==
    \/ CreateBudgets(OneWorker, UserIds, [u \in UserIds |-> RolloverBudget], MaxBudgets)
    \/ ReadBudgets(OneWorker, UserIds)
    \/ clock = BudgetClock0 /\ Tick

SpecRollover == InitBudgets /\ [][NextRollover]_vars

(***************************************************************************)
(* Totals: two users create, update and delete expenses dated in the       *)
(* current month and years before it, and read their dashboards.           *)
(***************************************************************************)
TotalsCreate ==
    [u \in UserIds |->
        IF u = 10
        THEN {[amount |-> 3, category_id |-> 1, description |-> <<"lunch">>,
               date |-> DT(2024, 6, 15, 12, 0, 0, 0, "utc")],
              [amount |-> 5, category_id |-> 2, description |-> <<"taxi">>,
               date |-> DT(2020, 1, 1, 0, 0, 0, 0, "utc")]}
        ELSE {[amount |-> 7, category_id |-> 1, description |-> <<"lunch">>,
               date |-> DT(2024, 6, 15, 12, 0, 0, 0, "utc")]}]
TotalsUpdate ==
    {[amount |-> 9, category_id |-> 2, description |-> <<"dinner">>,
      date |-> DT(2023, 12, 31, 23, 0, 0, 0, "utc")]}
TotalsBudgetUsers == {10}

NextTotals ==
    \/ CreateExpenses(OneWorker, UserIds, TotalsCreate, MaxExpenses)
    \/ UpdateExpenses(OneWorker, UserIds, TotalsUpdate)
    \/ DeleteExpenses(OneWorker, UserIds)
    \/ CreateBudgets(OneWorker, TotalsBudgetUsers, ApiBudget, MaxBudgets)
    \/ ReadDashboard(OneWorker, UserIds)

SpecTotals == Init /\ [][NextTotals]_vars

(***************************************************************************)
(* Breakdown: one user records expenses of three categories, two amounts   *)
(* each, in the current month, and one of the month before, and reads the  *)
(* dashboard.                                                              *)
(***************************************************************************)
BreakdownUsers == {10}
BreakdownCreate ==
    [amount : {3, 7}, category_id : {1, 2, 3}, description : {<<"lunch">>},
     date : {DT(2024, 6, 15, 12, 0, 0, 0, "utc")}]
    \cup {[amount |-> 100, category_id |-> 1, description |-> <<"lunch">>,
           date |-> DT(2024, 5, 15, 12, 0, 0, 0, "utc")]}

NextBreakdown ==
    \/ CreateExpenses(OneWorker, BreakdownUsers, [u \in UserIds |-> BreakdownCreate],
                      MaxExpenses)
    \/ CreateBudgets(OneWorker, BreakdownUsers, ApiBudget, MaxBudgets)
    \/ ReadDashboard(OneWorker, BreakdownUsers)

SpecBreakdown == Init /\ [][NextBreakdown]_vars

(***************************************************************************)
(* Credentials: requests to the user-scoped routes without credentials,    *)
(* with a token that does not verify, with an expired token and with a     *)
(* valid token of an id that is not in db.users, between the creates and   *)
(* listings of a user with valid credentials.                              *)
(***************************************************************************)
GhostUser == 99
UserScopedRoutes ==
    {<<"POST", "/expenses">>, <<"GET", "/expenses">>,
     <<"PUT", "/expenses/{expense_id}">>, <<"DELETE", "/expenses/{expense_id}">>,
     <<"POST", "/budgets">>, <<"GET", "/budgets">>, <<"GET", "/dashboard">>}
Credentials ==
    {[kind |-> "none", user_id |-> 0], [kind |-> "invalid", user_id |-> 0],
     [kind |-> "expired", user_id |-> 10], [kind |-> "valid", user_id |-> GhostUser],
     [kind |-> "valid", user_id |-> 10]}
AuthUsers == {10}

NextAuth ==
    \/ \E p \in OneWorker, r \in UserScopedRoutes, cred \in Credentials :
          get_current_user_rejects(p, r[1], r[2], cred)
    \/ CreateExpenses(OneWorker, AuthUsers, ApiCreate, MaxExpenses)
    \/ ReadExpenses(OneWorker, AuthUsers, {NoFilter})

SpecAuth == Init /\ [][NextAuth]_vars

(***************************************************************************)
(* Registration under concurrency: POST /auth/register requests for two    *)
(* emails, interleaved at their awaits, on a store that has been seeded    *)
(* and has no user yet.                                                    *)
(***************************************************************************)
MaxUsers == 2
RegisterData == [email : {"ann@example.com", "bob@example.com"}, name : {"Ann"}, password : {"pw"}]

InitRegister ==
    /\ clock = Clock0
    /\ users = {}
    /\ categories = DefaultCatalog
    /\ expenses = {}
    /\ budgets = {}
    /\ creator = <<>>
    /\ nextId = Len(DefaultNames) + 1
    /\ req = [p \in Procs |-> Idle]

NextRegister ==
    \/ \E p \in Procs, data \in RegisterData :
          Room("user", "register", MaxUsers) /\ register_begin(p, data)
    \/ \E p \in Procs : register_find_existing(p)
    \/ \E p \in Procs : register_insert_one(p)

SpecRegister == InitRegister /\ [][NextRegister]_vars

(***************************************************************************)
(* Startups: processes start against a fresh store, one after another or   *)
(* overlapping, and serve GET /categories once started.                    *)
(***************************************************************************)
InitStartup ==
    /\ clock = Clock0
    /\ users = {}
    /\ categories = {}
    /\ expenses = {}
    /\ budgets = {}
    /\ creator = <<>>
    /\ nextId = 1
    /\ req = [p \in Procs |-> Idle]

NextStartup ==
    \/ \E p \in Procs : startup_event(p)
    \/ \E p \in Procs : initialize_categories_count_documents(p)
    \/ \E p \in Procs : initialize_categories_insert_many(p)
    \/ \E p \in Procs : req[p].op # "idle" /\ get_categories_begin(p)
    \/ \E p \in Procs : get_categories_find(p)

SpecStartup == InitStartup /\ [][NextStartup]_vars

(***************************************************************************)
(* Amounts: one user creates and updates expenses with positive, zero and  *)
(* negative amounts (ExpenseCreate.amount is any float).                   *)
(***************************************************************************)
AmountUsers == {10}
AmountCreate ==
    [amount : {0 - 5, 0, 3}, category_id : {1}, description : {<<"lunch">>},
     date : {DT(2024, 6, 15, 12, 0, 0, 0, "utc")}]
AmountUpdate ==
    [amount : {0 - 5, 0, 9}, category_id : {1}, description : {<<"dinner">>},
     date : {DT(2024, 6, 16, 0, 0, 0, 0, "utc")}]

NextAmounts ==
    \/ CreateExpenses(OneWorker, AmountUsers, [u \in UserIds |-> AmountCreate], MaxExpenses)
    \/ UpdateExpenses(OneWorker, AmountUsers, AmountUpdate)

SpecAmounts == Init /\ [][NextAmounts]_vars

(***************************************************************************)
(* Partial updates: two users update expenses with a complete body and     *)
(* with the body of the test suite (test_update_expense), which has an     *)
(* amount, a description and a category id and no date.                    *)
(***************************************************************************)
PartialUsers == UserIds
PartialUpdate ==
    {[amount |-> 35, description |-> <<"updated">>, category_id |-> 1],
     [amount |-> 36, description |-> <<"updated">>, category_id |-> 2]}

NextPartial ==
    \/ CreateExpenses(OneWorker, PartialUsers, ApiCreate, MaxExpenses)
    \/ UpdateExpenses(OneWorker, PartialUsers, ApiUpdate)
    \/ \E p \in OneWorker, u \in PartialUsers, id \in KnownExpenseIds, data \in PartialUpdate :
          update_expense_invalid(p, u, id, data)

SpecPartial == Init /\ [][NextPartial]_vars

(***************************************************************************)
(* Dashboard under concurrency: one user's dashboard request runs its      *)
(* queries while other requests of the same user create, update and        *)
(* delete expenses of positive amount dated in the current month.          *)
(***************************************************************************)
ConcurrentUsers == {10}
ConcurrentUpdate ==
    {[amount |-> 9, category_id |-> 1, description |-> <<"dinner">>,
      date |-> DT(2024, 6, 16, 0, 0, 0, 0, "utc")]}

\* worker 1 serves the dashboard requests, worker 2 the writes
Reader == {1}
Writer == {2}

NextConcurrent ==
    \/ CreateExpenses(Writer, ConcurrentUsers, ApiCreate, MaxLedgerExpenses)
    \/ UpdateExpenses(Writer, ConcurrentUsers, ConcurrentUpdate)
    \/ DeleteExpenses(Writer, ConcurrentUsers)
    \/ CreateBudgets(Writer, ConcurrentUsers, ApiBudget, MaxBudgets)
    \/ ReadDashboard(Reader, ConcurrentUsers)

SpecConcurrent == Init /\ [][NextConcurrent]_vars

(***************************************************************************)
(* Claims.                                                                 *)
(***************************************************************************)
SameKey(b1, b2) == /\ b1.user_id = b2.user_id
                   /\ b1.category_id = b2.category_id
                   /\ b1.current_month = b2.current_month

\* C2: in every reachable state of the budget registry, also when POST
\* /budgets requests of one user for one category overlap in the same month,
\* there is at most one budget per (user id, category id, month key).
C2_OneBudgetPerKey == \A b1, b2 \in budgets : SameKey(b1, b2) => b1 = b2

\* A budget of the request's user and category that was in the registry before
\* the request arrived and carries the month key the request reads from the clock
EarlierBudget(p) ==
    \E b \in budgets : /\ b.id < req[p].t0
                       /\ b.user_id = req[p].user
                       /\ b.category_id = req[p].arg.category_id
                       /\ b.current_month = req[p].loc.current_month

\* C3: once a POST /budgets for (user, category) has completed, a later POST
\* /budgets of the same user and category in the same month (the month key
\* the handler reads from the clock) ends with 400 and leaves the registry
\* as it was, whatever limit it carries: the step that answers it is the
\* duplicate check, it answers 400 and changes no budget.
C3_DuplicateRejected ==
    [][\A p \in Procs :
          (/\ At(p, "create_budget", "find_existing")
           /\ EarlierBudget(p)
           /\ req'[p] # req[p])
          => /\ req'[p].pc = "done"
             /\ req'[p].status = 400
             /\ budgets' = budgets]_vars

\* a rejected duplicate whose limit differs from the stored one
C3_Witness ==
    \E p \in Procs :
        /\ Done(p, "create_budget")
        /\ req[p].status = 400
        /\ \E b \in budgets : /\ b.id < req[p].t0
                              /\ b.user_id = req[p].user
                              /\ b.category_id = req[p].arg.category_id
                              /\ b.current_month = req[p].loc.current_month
                              /\ b.monthly_limit # req[p].arg.monthly_limit

\* the step that worker p takes while handling op
Steps(p, op) == req[p].op = op /\ req[p].pc # "done" /\ req'[p] # req[p]

OwnedBy(id, u) == \E e \in expenses : e.id = id /\ e.user_id = u
OwnedByOther(id, u) == \E e \in expenses : e.id = id /\ e.user_id # u

\* C8: DELETE /expenses/{id} succeeds at most once per id.  A delete answers
\* 200 exactly when the requester's expense is in the ledger at its delete_one
\* and removes it; an id that has left the ledger never returns, so every
\* later delete of it, by any user, answers 404, and of overlapping deletes
\* by the owner one answers 200 and the others 404.
C8_DeleteOnce ==
    [][/\ \A p \in Procs :
            Steps(p, "delete_expense") =>
                LET id == req[p].arg.expense_id
                IN /\ req'[p].pc = "done"
                   /\ OwnedBy(id, req[p].user)
                        => req'[p].status = 200 /\ id \notin ExpenseIds'
                   /\ ~OwnedBy(id, req[p].user)
                        => req'[p].status = 404 /\ expenses' = expenses
       /\ \A id \in KnownExpenseIds : id \notin ExpenseIds => id \notin ExpenseIds'
      ]_vars

\* two overlapping deletes of one expense by its owner: one 200, one 404
C8_Witness ==
    \E p, q \in Procs :
        /\ Done(p, "delete_expense") /\ Done(q, "delete_expense")
        /\ req[p].arg.expense_id = req[q].arg.expense_id
        /\ req[p].user = req[q].user
        /\ req[p].t0 = req[q].t0
        /\ req[p].status = 200 /\ req[q].status = 404

\* C9: PUT or DELETE /expenses/{id} by a user for an expense that is in the
\* ledger and owned by another user answers 404 at its first step and leaves
\* every expense of the ledger as it was.
C9_ForeignExpenseUntouched ==
    [][\A p \in Procs :
          (/\ Steps(p, "update_expense") \/ Steps(p, "delete_expense")
           /\ OwnedByOther(req[p].arg.expense_id, req[p].user))
          => /\ expenses' = expenses
             /\ req'[p].pc = "done"
             /\ req'[p].status = 404]_vars

\* both a PUT and a DELETE of another user's stored expense were answered 404
C9_Witness ==
    \E p, q \in Procs :
        /\ Done(p, "update_expense") /\ req[p].status = 404
        /\ Done(q, "delete_expense") /\ req[q].status = 404
        /\ OwnedByOther(req[p].arg.expense_id, req[p].user)
        /\ OwnedByOther(req[q].arg.expense_id, req[q].user)

\* the calendar day an expense document is dated
OnDay(e, ym, d) ==
    LET t == fromisoformat(e.date) IN t.y = ym[1] /\ t.mo = ym[2] /\ t.d = d

OnLastDay(e, ym) == OnDay(e, ym, DaysIn(ym))
OnNextFirst(e, ym) == OnDay(e, NextMonth(ym), 1)

\* total counts every expense of docs dated the last day of ym, none dated the
\* first day of the next month, and some of the others
Covers(total, docs, ym) ==
    \E X \in SUBSET {e \in docs : ~OnLastDay(e, ym) /\ ~OnNextFirst(e, ym)} :
        total = SumAmount({e \in docs : OnLastDay(e, ym)} \cup X)

\* the amount the breakdown gives a category name (nothing when it has no row)
BreakdownAmount(rows, name) ==
    LET hit == {i \in DOMAIN rows : rows[i].name = name}
    IN IF hit = {} THEN 0 ELSE rows[CHOOSE i \in hit : TRUE].amount

Mine(p) == {e \in expenses : e.user_id = req[p].user}

\* C4: in a current month of 28, 29, 30 or 31 days, the month aggregates of a
\* response (each budget's spent_amount of GET /budgets and of the dashboard's
\* budget_status, the dashboard's monthly_expenses and each category's amount
\* in categories_breakdown) count every expense of the user dated on the last
\* calendar day of the month and none dated on the first day of the next one.
C4_MonthEnd ==
    \A p \in Procs :
        /\ Done(p, "get_budgets") =>
              \A i \in DOMAIN req[p].body.budgets :
                  LET row == req[p].body.budgets[i]
                  IN Covers(row.spent_amount,
                            {e \in Mine(p) : e.category_id = row.category_id}, clock)
        /\ (Done(p, "get_dashboard") /\ req[p].status = 200) =>
              /\ Covers(req[p].body.monthly_expenses, Mine(p), clock)
              /\ \A n \in {e.category_name : e \in Mine(p)} :
                    Covers(BreakdownAmount(req[p].body.categories_breakdown, n),
                           {e \in Mine(p) : e.category_name = n}, clock)
              /\ \A i \in DOMAIN req[p].body.budget_status :
                    LET row == req[p].body.budget_status[i]
                    IN Covers(row.spent_amount,
                              {e \in Mine(p) : e.category_name = row.category_name},
                              clock)

\* a dashboard in a 31-day month whose budget row counted an expense of the
\* 31st while the ledger also holds one of the next month's first day
C4_Witness ==
    \E p \in Procs :
        /\ Done(p, "get_dashboard") /\ req[p].status = 200
        /\ DaysIn(clock) = 31
        /\ \E e \in Mine(p) : OnLastDay(e, clock) /\ fromisoformat(e.date).h = 23
        /\ \E e \in Mine(p) : OnNextFirst(e, clock)
        /\ \E i \in DOMAIN req[p].body.budget_status :
              req[p].body.budget_status[i].spent_amount > 0

\* the expenses and budgets the requester of p created
CreatedBy(u, kind) == {i \in DOMAIN creator : creator[i].kind = kind /\ creator[i].user = u}
OwnExpenses(p) == {e \in expenses : e.id \in CreatedBy(req[p].user, "expense")}

\* amount is a sum over some of docs
SumOfSome(amount, docs) == \E X \in SUBSET docs : amount = SumAmount(X)

\* C1: every expense and budget in a response to GET /expenses, GET /budgets
\* or GET /dashboard was created by the requester, and every amount of the
\* response (spent_amount, total_expenses, monthly_expenses, the breakdown's
\* amounts) is a sum over expenses the requester created, whatever requests
\* of whatever users came before.
C1_Isolation ==
    \A p \in Procs :
        LET u == req[p].user
            body == req[p].body
        IN /\ Done(p, "get_expenses") =>
                 \A i \in DOMAIN body.expenses :
                     body.expenses[i].id \in CreatedBy(u, "expense")
           /\ Done(p, "get_budgets") =>
                 \A i \in DOMAIN body.budgets :
                     /\ body.budgets[i].id \in CreatedBy(u, "budget")
                     /\ SumOfSome(body.budgets[i].spent_amount,
                                  {e \in OwnExpenses(p) :
                                      e.category_id = body.budgets[i].category_id})
           /\ (Done(p, "get_dashboard") /\ req[p].status = 200) =>
                 /\ body.total_expenses = SumAmount(OwnExpenses(p))
                 /\ SumOfSome(body.monthly_expenses, OwnExpenses(p))
                 /\ \A i \in DOMAIN body.categories_breakdown :
                       SumOfSome(body.categories_breakdown[i].amount,
                                 {e \in OwnExpenses(p) :
                                     e.category_name = body.categories_breakdown[i].name})
                 /\ \A i \in DOMAIN body.recent_expenses :
                       body.recent_expenses[i].id \in CreatedBy(u, "expense")
                 /\ \A i \in DOMAIN body.budget_status :
                       LET row == body.budget_status[i]
                       IN /\ \E b \in budgets :
                                /\ b.id \in CreatedBy(u, "budget")
                                /\ b.category_name = row.category_name
                                /\ b.monthly_limit = row.monthly_limit
                          /\ SumOfSome(row.spent_amount,
                                       {e \in OwnExpenses(p) :
                                           e.category_name = row.category_name})

\* a dashboard answered to one user, with a budget row that counted an
\* expense, while the other user holds an expense and a budget of the same
\* category and month
C1_Witness ==
    \E p \in Procs :
        /\ Done(p, "get_dashboard") /\ req[p].status = 200
        /\ \E e \in expenses : e.user_id # req[p].user /\ e.category_id = 1
        /\ \E b \in budgets : b.user_id # req[p].user /\ b.category_id = 1
        /\ \E i \in DOMAIN req[p].body.budget_status :
              req[p].body.budget_status[i].spent_amount > 0
        /\ req[p].body.recent_expenses # <<>>

\* the instant a stored date denotes, as a tuple that orders chronologically
Instant(date) ==
    LET t == fromisoformat(date) IN <<t.y, t.mo, t.d, t.h, t.mi, t.s, t.us>>

TupleLeq(a, b) ==
    \/ a = b
    \/ \E i \in 1..Len(a) : a[i] < b[i] /\ \A j \in 1..(i - 1) : a[j] = b[j]

\* the date lies in the month ym, from M-01T00:00:00.000 on (inclusive)
InMonth(date, ym) ==
    /\ TupleLeq(<<ym[1], ym[2], 1, 0, 0, 0, 0>>, Instant(date))
    /\ ~TupleLeq(<<NextMonth(ym)[1], NextMonth(ym)[2], 1, 0, 0, 0, 0>>, Instant(date))

\* C5: every budget of a GET /budgets response carries as spent_amount the
\* sum of the amounts of exactly the requester's expenses of the budget's
\* category that are dated in the current month, the first instant of the
\* month (M-01T00:00:00 UTC) included; 0 when there is none.
C5_SpentFromMonthStart ==
    \A p \in Procs :
        Done(p, "get_budgets") =>
            \A i \in DOMAIN req[p].body.budgets :
                LET row == req[p].body.budgets[i]
                IN row.spent_amount =
                       SumAmount({e \in Mine(p) : /\ e.category_id = row.category_id
                                                  /\ InMonth(e.date, clock)})

\* C6: a dashboard request is never answered 500, and every row of its
\* budget_status carries percentage 0 when the budget's limit is zero or
\* negative and exactly spent_amount / monthly_limit * 100 otherwise, above
\* 100 when spent_amount is above the limit.
C6_Percentage ==
    \A p \in Procs :
        Done(p, "get_dashboard") =>
            /\ req[p].status = 200
            /\ \A i \in DOMAIN req[p].body.budget_status :
                  LET row == req[p].body.budget_status[i]
                      pct == row.percentage
                  IN /\ ~pct.fault
                     /\ pct.den # 0
                     /\ row.monthly_limit <= 0 => pct.num = 0
                     /\ row.monthly_limit > 0 =>
                            /\ pct.num * row.monthly_limit
                                   = row.spent_amount * 100 * pct.den
                            /\ (row.spent_amount > row.monthly_limit
                                   => pct.num > 100 * pct.den)

\* a dashboard with a zero-limit row and a row whose spending is above its
\* limit, at more than 100 per cent
C6_Witness ==
    \E p \in Procs :
        /\ Done(p, "get_dashboard") /\ req[p].status = 200
        /\ \E i, j \in DOMAIN req[p].body.budget_status :
              /\ req[p].body.budget_status[i].monthly_limit = 0
              /\ req[p].body.budget_status[j].monthly_limit > 0
              /\ req[p].body.budget_status[j].spent_amount
                     > req[p].body.budget_status[j].monthly_limit
              /\ req[p].body.budget_status[j].percentage.num
                     > 100 * req[p].body.budget_status[j].percentage.den

\* a request to update or delete a budget by its id
BudgetByIdRequest(p) ==
    /\ req[p].pc = "done"
    /\ req[p].op \notin {"idle", "create_expense", "get_expenses", "update_expense",
                         "delete_expense", "create_budget", "get_budgets",
                         "get_dashboard"}
    /\ req[p].arg.method \in {"PUT", "DELETE"}
    /\ req[p].arg.path = "/budgets/{budget_id}"

\* C7: PUT /budgets/{id} and DELETE /budgets/{id} by the user who created the
\* budget, while it is stored, are answered 200.
C7_OwnerSucceeds ==
    \A p \in Procs :
        (/\ BudgetByIdRequest(p)
         /\ req[p].arg.id \in BudgetIds
         /\ req[p].arg.id \in CreatedBy(req[p].user, "budget"))
            => req[p].status = 200

\* the filters a GET /expenses request supplies, applied to one expense
Satisfies(e, q) ==
    /\ (q.category_id # 0 => e.category_id = q.category_id)
    /\ (q.start_date # <<>> => TupleLeq(Instant(q.start_date), Instant(e.date)))
    /\ (q.end_date # <<>> => TupleLeq(Instant(e.date), Instant(q.end_date)))
    /\ \A lo \in q.min_amount : e.amount >= lo
    /\ \A hi \in q.max_amount : e.amount <= hi
    /\ \A w \in q.search : \E i \in DOMAIN e.description : e.description[i] = w

\* C10: GET /expenses returns exactly the requester's expenses that satisfy
\* every supplied filter (category, date range, amount range, search word).
C10_ExactFilter ==
    \A p \in Procs :
        Done(p, "get_expenses") =>
            {req[p].body.expenses[i].id : i \in DOMAIN req[p].body.expenses}
                = {e.id : e \in {x \in Mine(p) : Satisfies(x, req[p].arg)}}

\* the calendar day a date-only bound names, and the instants a bound stands for
BoundDay(s) == <<Num(SubSeq(s, 1, 4)), Num(SubSeq(s, 6, 7)), Num(SubSeq(s, 9, 10))>>
IsDateOnly(s) == Len(s) = 10
NotBeforeBound(date, s) ==
    IF IsDateOnly(s) THEN TupleLeq(BoundDay(s) \o <<0, 0, 0, 0>>, Instant(date))
    ELSE TupleLeq(Instant(s), Instant(date))
NotAfterBound(date, s) ==
    IF IsDateOnly(s) THEN TupleLeq(SubSeq(Instant(date), 1, 3), BoundDay(s))
    ELSE TupleLeq(Instant(date), Instant(s))

ReturnedIds(p) == {req[p].body.expenses[i].id : i \in DOMAIN req[p].body.expenses}

\* C11: a GET /expenses with a date range returns every expense of the
\* requester dated from the start bound on (the bound itself included) and up
\* to the end bound (the bound itself included, and the whole calendar day
\* when the bound is a date without a time, such as 2024-12-31).
C11_InclusiveRange ==
    \A p \in Procs :
        Done(p, "get_expenses") =>
            \A e \in Mine(p) :
                (/\ req[p].arg.start_date # <<>> => NotBeforeBound(e.date, req[p].arg.start_date)
                 /\ req[p].arg.end_date # <<>> => NotAfterBound(e.date, req[p].arg.end_date))
                    => e.id \in ReturnedIds(p)

\* the two inclusive cases the handler does serve: bounds that are the stored
\* text of the expense's own date
C11_EqualBoundsServed ==
    \A p \in Procs :
        Done(p, "get_expenses") =>
            \A e \in Mine(p) :
                (/\ req[p].arg.start_date \in {<<>>, e.date}
                 /\ req[p].arg.end_date \in {<<>>, e.date})
                    => e.id \in ReturnedIds(p)

\* the sort-key value of a returned expense, as a tuple
SortKey(e, by) ==
    IF by = "amount" THEN <<e.amount>>
    ELSE <<e.date.y, e.date.mo, e.date.d, e.date.h, e.date.mi, e.date.s, e.date.us>>

\* C12: the list a GET /expenses returns is ordered by the requested sort key
\* (date or amount) in the requested direction, and by date descending when
\* no sort parameter is sent: adjacent expenses are in that order.
C12_Ordered ==
    \A p \in Procs :
        Done(p, "get_expenses") =>
            LET q == req[p].arg
                by == IF q.sort_by = {} THEN "date" ELSE CHOOSE b \in q.sort_by : TRUE
                order == IF q.sort_order = {}
                         THEN (IF q.sort_by = {} THEN "desc" ELSE "asc")
                         ELSE CHOOSE o \in q.sort_order : TRUE
                list == req[p].body.expenses
            IN \A i \in 1..(Len(list) - 1) :
                  IF order = "asc"
                  THEN TupleLeq(SortKey(list[i], by), SortKey(list[i + 1], by))
                  ELSE TupleLeq(SortKey(list[i + 1], by), SortKey(list[i], by))

\* q is an unfiltered listing by the user of the create p, which arrived
\* after p's insert, both answered
ListedAfterCreate(p, q) ==
    /\ Done(p, "create_expense") /\ req[p].status = 200
    /\ Done(q, "get_expenses") /\ req[q].status = 200
    /\ req[q].user = req[p].user
    /\ req[q].arg = NoFilter
    /\ req[p].body.expense.id < req[q].t0

\* C13: an unfiltered GET /expenses by the user of a successful create, sent
\* after it (nothing but creates and listings in between), returns a record
\* with the id the create returned and with the amount, category id,
\* description and date that were submitted.
C13_RoundTrip ==
    \A p, q \in Procs :
        ListedAfterCreate(p, q) =>
            \E i \in DOMAIN req[q].body.expenses :
                LET r == req[q].body.expenses[i]
                IN /\ r.id = req[p].body.expense.id
                   /\ r.amount = req[p].arg.amount
                   /\ r.category_id = req[p].arg.category_id
                   /\ r.description = req[p].arg.description
                   /\ r.date = req[p].arg.date

\* a listing after the create of an expense dated with microseconds
C13_Witness ==
    \E p, q \in Procs :
        /\ ListedAfterCreate(p, q)
        /\ req[p].arg.date.us # 0
        /\ Len(req[q].body.expenses) > 1

\* the request of p names a category id that is not in the catalog
NamesAbsentCategory(p) ==
    /\ req[p].op \in {"create_expense", "update_expense", "create_budget"}
    /\ LET id == IF req[p].op = "update_expense" THEN req[p].arg.data.category_id
                 ELSE req[p].arg.category_id
       IN \A c \in categories : c.id # id

\* C14 as stated: every such request is answered 404 "Category not found".
C14_AlwaysCategoryNotFound ==
    \A p \in Procs :
        (NamesAbsentCategory(p) /\ req[p].pc = "done") =>
            /\ req[p].status = 404
            /\ req[p].body = [detail |-> "Category not found"]

\* C14, amended: no step of a create_expense, update_expense or create_budget
\* request that names a category id absent from the catalog changes the
\* ledger or the registry, and the request is answered 404: "Category not
\* found", except that an update_expense of an expense the requester does
\* not own is answered 404 "Expense not found".
C14_AbsentCategory ==
    [][\A p \in Procs :
          (NamesAbsentCategory(p) /\ req[p].pc # "done" /\ req'[p] # req[p]) =>
              /\ expenses' = expenses
              /\ budgets' = budgets
              /\ req'[p].pc = "done" =>
                    /\ req'[p].status = 404
                    /\ req'[p].body =
                          [detail |->
                              IF /\ req[p].op = "update_expense"
                                 /\ ~OwnedBy(req[p].arg.expense_id, req[p].user)
                              THEN "Expense not found"
                              ELSE "Category not found"]]_vars

\* the owner's update of a stored expense with an unknown category, answered
\* 404 "Category not found"
C14_Witness ==
    \E p \in Procs :
        /\ Done(p, "update_expense")
        /\ NamesAbsentCategory(p)
        /\ OwnedBy(req[p].arg.expense_id, req[p].user)
        /\ req[p].body = [detail |-> "Category not found"]

\* worker p takes a step of its request op
StepOf(p, op) == req[p].op = op /\ req[p].pc # "done" /\ req'[p] # req[p]

\* C15: a GET /budgets request reads the month key from the clock when it
\* arrives, keeps it, and returns exactly the requester's budgets with that
\* month key; a POST /budgets reads the key from the clock after its category
\* lookup and is rejected as a duplicate only if a budget of the requester
\* for the category and that key is stored (so not because of a budget of an
\* earlier month).
C15_CurrentMonthOnly ==
    [][\A p \in Procs :
          /\ (req'[p] # req[p] /\ req'[p].op = "get_budgets" /\ req'[p].pc = "find") =>
                req'[p].loc.current_month = MonthKey(clock)
          /\ StepOf(p, "get_budgets") =>
                /\ req'[p].loc.current_month = req[p].loc.current_month
                /\ req'[p].pc = "done" =>
                      {req'[p].body.budgets[i].id : i \in DOMAIN req'[p].body.budgets}
                          = {b.id : b \in {x \in budgets :
                                              /\ x.user_id = req[p].user
                                              /\ x.current_month = req[p].loc.current_month}}
          /\ (StepOf(p, "create_budget") /\ req'[p].pc = "find_existing") =>
                req'[p].loc.current_month = MonthKey(clock)
          /\ (StepOf(p, "create_budget") /\ req'[p].pc = "done" /\ req'[p].status = 400) =>
                \E b \in budgets : /\ b.user_id = req[p].user
                                   /\ b.category_id = req[p].arg.category_id
                                   /\ b.current_month = req[p].loc.current_month]_vars

\* in January a user who holds a December budget and a January budget for
\* the same category is answered a list of one budget, the January one
C15_Witness ==
    \E p \in Procs :
        /\ Done(p, "get_budgets")
        /\ clock = NextMonth(BudgetClock0)
        /\ \E b1, b2 \in budgets :
              /\ b1.user_id = req[p].user /\ b2.user_id = req[p].user
              /\ b1.category_id = b2.category_id
              /\ b1.current_month = MonthKey(BudgetClock0)
              /\ b2.current_month = MonthKey(clock)
              /\ Len(req[p].body.budgets) = 1
              /\ req[p].body.budgets[1].id = b2.id

\* C16: every budget record a POST /budgets or a GET /budgets returns carries
\* as spent_amount the sum of the requester's expenses of the budget's
\* category and month in the ledger at response time, and no stored budget
\* document carries a spent amount.
C16_SpentDerived ==
    /\ \A p \in Procs :
          LET returned ==
                  IF Done(p, "create_budget") /\ req[p].status = 200
                  THEN {req[p].body.budget}
                  ELSE IF Done(p, "get_budgets")
                  THEN {req[p].body.budgets[i] : i \in DOMAIN req[p].body.budgets}
                  ELSE {}
          IN \A b \in returned :
                b.spent_amount =
                    SumAmount({e \in Mine(p) : /\ e.category_id = b.category_id
                                               /\ InMonth(e.date, clock)})
    /\ \A b \in budgets : "spent_amount" \notin DOMAIN b

\* the part of C16 the code keeps: the records of GET /budgets
C16_ListedSpentDerived ==
    \A p \in Procs :
        Done(p, "get_budgets") =>
            \A i \in DOMAIN req[p].body.budgets :
                req[p].body.budgets[i].spent_amount =
                    SumAmount({e \in Mine(p) :
                                  /\ e.category_id = req[p].body.budgets[i].category_id
                                  /\ InMonth(e.date, clock)})

\* C17: whatever creates, updates and deletes of whatever users came before,
\* the total_expenses of a dashboard is the sum of the amounts of all the
\* expenses the requester owns in the ledger, of any date (0 when none).
C17_TotalExpenses ==
    \A p \in Procs :
        (Done(p, "get_dashboard") /\ req[p].status = 200) =>
            req[p].body.total_expenses = SumAmount(Mine(p))

\* a dashboard with a positive total for a user who owns an expense dated
\* outside the current month, after an expense was deleted
C17_Witness ==
    \E p \in Procs :
        /\ Done(p, "get_dashboard") /\ req[p].status = 200
        /\ req[p].body.total_expenses > 0
        /\ \E e \in Mine(p) : ~InMonth(e.date, clock)
        /\ \E id \in KnownExpenseIds : id \notin ExpenseIds

\* the requester's expenses dated in the current month, and the sum of those
\* of one category name
ThisMonth(p) == {e \in Mine(p) : InMonth(e.date, clock)}
NameTotal(p, n) == SumAmount({e \in ThisMonth(p) : e.category_name = n})

C19_AllEmpty ==
    \A p \in Procs :
        (Done(p, "get_dashboard") /\ Mine(p) = {}) =>
            /\ req[p].status = 200
            /\ req[p].body.total_expenses = 0
            /\ req[p].body.monthly_expenses = 0
            /\ req[p].body.categories_breakdown = <<>>
            /\ req[p].body.recent_expenses = <<>>
            /\ req[p].body.budget_status = <<>>

\* C19, amended: the dashboard of a user who owns no expense, whatever the
\* other users have stored, has total_expenses 0, monthly_expenses 0, an
\* empty categories_breakdown, an empty recent_expenses, and a budget_status
\* with one row per current-month budget of the user, each with spent_amount
\* 0 and percentage 0 (so an empty one when the user has no such budget).
C19_ZeroExpenses ==
    \A p \in Procs :
        (Done(p, "get_dashboard") /\ Mine(p) = {}) =>
            LET rows == req[p].body.budget_status
                mine == {b \in budgets : /\ b.user_id = req[p].user
                                         /\ b.current_month = MonthKey(clock)}
            IN /\ req[p].status = 200
               /\ req[p].body.total_expenses = 0
               /\ req[p].body.monthly_expenses = 0
               /\ req[p].body.categories_breakdown = <<>>
               /\ req[p].body.recent_expenses = <<>>
               /\ Len(rows) = Cardinality(mine)
               /\ \A i \in DOMAIN rows :
                     /\ rows[i].spent_amount = 0
                     /\ rows[i].percentage.num = 0
                     /\ \E b \in mine : /\ b.category_name = rows[i].category_name
                                        /\ b.monthly_limit = rows[i].monthly_limit

\* the dashboard of a user without expenses who has a budget, while the
\* other user has an expense and a budget of the same category and month
C19_Witness ==
    \E p \in Procs :
        /\ Done(p, "get_dashboard") /\ Mine(p) = {}
        /\ Len(req[p].body.budget_status) = 1
        /\ \E e \in expenses : e.user_id # req[p].user /\ InMonth(e.date, clock)
        /\ \E b \in budgets : b.user_id # req[p].user

\* C20: a request to a user-scoped route whose credentials are missing,
\* invalid, expired or name a user that does not exist is answered 401 or 403.
C20_AuthenticationError ==
    \A p \in Procs :
        Done(p, "get_current_user") => req[p].status \in {401, 403}

\* the part of C20 the code keeps: the rejected request changes no store and
\* its response carries nothing but a detail message
C20_NoEffectNoData ==
    [][\A p \in Procs :
          (req'[p] # req[p] /\ req'[p].op = "get_current_user") =>
              /\ users' = users /\ expenses' = expenses /\ budgets' = budgets
              /\ DOMAIN req'[p].body = {"detail"}
              /\ req'[p].status \in {401, 403, 500}]_vars

\* C21: in every reachable state of the identity store, also when register
\* requests overlap, no two user records share an email.
C21_UniqueEmail ==
    \A u1, u2 \in users : u1.email = u2.email => u1 = u2

\* the part of C21 the code keeps: a register request that finds its email
\* registered is answered 400 and adds no record
C21_RegisteredRejected ==
    [][\A p \in Procs :
          (/\ StepOf(p, "register") /\ req[p].pc = "find_existing"
           /\ \E doc \in users : doc.email = req[p].arg.email) =>
              /\ req'[p].pc = "done" /\ req'[p].status = 400
              /\ users' = users]_vars

\* C22: after any startups, overlapping or not, the catalog is empty (before
\* the first seeding) or holds the nine default categories once, with
\* pairwise distinct names.
C22_SeededOnce ==
    \/ categories = {}
    \/ /\ Cardinality(categories) = Len(DefaultNames)
       /\ \A c1, c2 \in categories : c1.name = c2.name => c1 = c2

\* the part of C22 the code keeps: a startup that finds a non-empty catalog
\* inserts nothing
C22_NonEmptyUntouched ==
    [][\A p \in Procs :
          (/\ StepOf(p, "initialize_categories") /\ req[p].pc = "count_documents"
           /\ categories # {}) =>
              /\ req'[p].pc = "done"
              /\ categories' = categories]_vars

\* C23: every expense stored in the ledger has an amount above zero.
C23_PositiveAmounts ==
    \A e \in expenses : e.amount > 0

\* C24: an update_expense by the owner with an amount, a description and a
\* category id of the catalog, and without a date, is answered 200, and the
\* stored expense then has that amount and description.
C24_UpdateWithoutDate ==
    \A p \in Procs :
        (/\ Done(p, "update_expense")
         /\ "date" \notin DOMAIN req[p].arg.data
         /\ {"amount", "description", "category_id"} \subseteq DOMAIN req[p].arg.data
         /\ \E c \in categories : c.id = req[p].arg.data.category_id
         /\ OwnedBy(req[p].arg.expense_id, req[p].user)) =>
            /\ req[p].status = 200
            /\ \E e \in expenses : /\ e.id = req[p].arg.expense_id
                                   /\ e.amount = req[p].arg.data.amount
                                   /\ e.description = req[p].arg.data.description

\* C25: under every interleaving with deletes, an update_expense request ends
\* with the updated record (200) or with NotFound (404).
C25_UpdateOutcome ==
    \A p \in Procs :
        Done(p, "update_expense") => req[p].status \in {200, 404}

\* the part of C25 the code keeps: an id that has left the ledger never
\* comes back
C25_NoRecordAfterDelete ==
    [][\A id \in KnownExpenseIds : id \notin ExpenseIds => id \notin ExpenseIds']_vars

\* C26: with positive stored amounts, in every dashboard response
\* monthly_expenses is at most total_expenses and every budget_status
\* spent_amount is at most monthly_expenses, also when other requests change
\* the user's expenses between the dashboard's queries.
C26_Consistent ==
    \A p \in Procs :
        (Done(p, "get_dashboard") /\ req[p].status = 200) =>
            /\ req[p].body.monthly_expenses <= req[p].body.total_expenses
            /\ \A i \in DOMAIN req[p].body.budget_status :
                  req[p].body.budget_status[i].spent_amount
                      <= req[p].body.monthly_expenses

\* the document's category id is in the catalog, under the document's name
Stamped(doc) ==
    \E c \in categories : c.id = doc.category_id /\ c.name = doc.category_name

\* C27: in every reachable state every stored expense and every stored budget
\* has a category_id of the catalog and the category_name of that category
\* (so an update that changes the category leaves no state with the id
\* changed and the name not, or the reverse).
C27_CategoryStamped ==
    /\ \A e \in expenses : Stamped(e)
    /\ \A b \in budgets : Stamped(b)

\* an expense that an update has moved to another category, and a stored
\* budget
C27_Witness ==
    /\ \E e \in expenses : e.category_id = 2 /\ e.description = <<"dinner">>
    /\ budgets # {}
    /\ \E p \in Procs : Done(p, "update_expense") /\ req[p].status = 200

====
